---- MODULE Spec2Model ----
(***************************************************************************)
(* Model of GeminiAIbot.py: the daily request quota (sqlite table          *)
(* "requests"), the per-user conversation history (the dict                *)
(* user_histories of Python lists) and the chunking of long replies.       *)
(*                                                                         *)
(* Handlers are coroutines on one asyncio event loop.  A handler runs      *)
(* without interruption from one "await" that really suspends to the next  *)
(* one, so every action below is the code between two such awaits.  The    *)
(* sqlite3 calls are synchronous and do not suspend.  Several handlers     *)
(* (tasks) may be suspended at the same time; their steps interleave.      *)
(*                                                                         *)
(* Python lists are objects: user_histories.get(uid, []) returns the       *)
(* stored list itself, so hist.append mutates the stored history in place. *)
(* The heap of list objects is the function "lists"; user_histories and    *)
(* the tasks' local variable hist hold list identities.                    *)
(***************************************************************************)
EXTENDS Integers, Sequences, FiniteSets, TLC

\* ---------------------------------------------------------------- constants
MAX_HISTORY == 10
LIMIT_UNSUB == 20
LIMIT_SUB == 40
TELEGRAM_MSG_LIMIT == 4096

\* ------------------------------------------------------------------- bounds
NUsers == 2
NTasks == 2
MaxReq == 3
MaxParts == 2
MaxReqHistory == 6
MaxRuns == 3

Users == 1..NUsers
Tasks == 1..NTasks
\* at most one stored list per user and one local list per task are alive,
\* and one more is being created
ListIds == 1..(NUsers + NTasks + 1)
NoList == 0

\* counts the table may hold when the process starts (the file persists)
InitCounts == {LIMIT_UNSUB - 1, LIMIT_SUB - 1}

Kinds == {"text", "reset"}
Terminal == {"Rejected", "Delivered", "ResetDone", "ErrorNotified", "Raised"}

VARIABLES
    count,            \* table requests: user -> count of today (0 if no row)
    user_histories,   \* user -> identity of the stored list, NoList if no key
    lists,            \* heap: list identity -> sequence of turns
    tasks,            \* task -> its position and local variables
    reqs,             \* number of updates dispatched so far (bounds the run)
    admitted,         \* ghost: user -> number of requests admitted today
    resetRank,        \* ghost: user -> admission number of the last reset
    html_content,     \* send_long_message: the text still to split
    parts,            \* send_long_message: the chunks produced so far
    cpc,              \* send_long_message: position in the splitting loop
    translated        \* ghost: the value markdown_to_html returned (line 159)

vars == <<count, user_histories, lists, tasks, reqs, admitted, resetRank,
          html_content, parts, cpc, translated>>
chunkVars == <<html_content, parts, cpc, translated>>
botVars == <<count, user_histories, lists, tasks, reqs, admitted, resetRank>>

\* ------------------------------------------------------------ pure helpers
\* hist[-MAX_HISTORY:]
LastN(s, n) == IF Len(s) <= n THEN s ELSE SubSeq(s, Len(s) - n + 1, Len(s))

\* is_subscribed (lines 106-111): what get_chat_member can do. It returns a
\* member whose status is one of the strings below, or it raises ("error":
\* network failure, bot not in the channel, any exception)
MemberStatuses == {"member", "administrator", "creator"}
LookupOutcomes == {"member", "left", "error"}

\* an except branch that answers True
IsSubscribedFailOpen(o) == o \in MemberStatuses \cup {"error"}

\* return member.status in [...]; except: return False
IsSubscribed(o) == o \in MemberStatuses

\* limit = LIMIT_SUB if subscribed else LIMIT_UNSUB
Limit(subscribed) == IF subscribed THEN LIMIT_SUB ELSE LIMIT_UNSUB

\* an off-by-one comparison: count > limit
RejectsAbove(c, limit) == c > limit

\* if count >= limit: ... return False
Rejects(c, limit) == c >= limit

IdleTask ==
    [pc |-> "idle", uid |-> 0, kind |-> "none", count |-> 0, limit |-> 0,
     lookup |-> "none", gate |-> "none", hist |-> NoList, rank |-> 0,
     prev |-> <<>>,
     kept |-> "na", nparts |-> 0, sent |-> <<>>]

\* a handler that returned or raised: its local variables are gone; gate
\* and kept (ghosts) remember what check_rate_limit decided for it and what
\* a failed backend call left of its user turn
Ended(tk, pc) == [IdleTask EXCEPT !.pc = pc, !.gate = tk.gate, !.kept = tk.kept]

\* a handler inside send_long_message, n chunks to deliver
Sending(tk, n) ==
    [IdleTask EXCEPT !.pc = "send_html", !.uid = tk.uid, !.gate = tk.gate,
                     !.nparts = n]

\* a list object is alive while the dict or a suspended coroutine refers to it
Referenced(i, uh, tk) ==
    \/ \E u \in Users : uh[u] = i
    \/ \E t \in Tasks : tk[t].hist = i

\* the identity given to a newly created list: the least one not alive
FreshList ==
    CHOOSE i \in ListIds :
        /\ ~Referenced(i, user_histories, tasks)
        /\ \A j \in ListIds : j < i => Referenced(j, user_histories, tasks)

\* objects nobody refers to are collected
Collect(ls, uh, tk) ==
    [i \in ListIds |-> IF Referenced(i, uh, tk) THEN ls[i] ELSE <<>>]

\* the turns get_history(u) shows, in a state given by its dict and heap
HistoryIn(uh, ls, u) == IF uh[u] = NoList THEN <<>> ELSE ls[uh[u]]
History(u) == HistoryIn(user_histories, lists, u)

\* turn is one of the entries of the list h
Holds(h, turn) == \E i \in 1..Len(h) : h[i] = turn

\* ------------------------------------------------- strings of the splitter
\* A string is kept run-length encoded: a sequence of runs <<ch, n>>, n >= 1
\* copies of ch, where "n" stands for the line break, "q" for the backtick
\* and "x" for any other character.  A run whose ch is a tag (OpenTag,
\* CloseTag) stands for n consecutive characters of that tag: the whole tag
\* when n is its width, a piece of it after a cut.  Positions are counted
\* from 0 as in Python.
RECURSIVE StrLen(_)
StrLen(s) == IF s = <<>> THEN 0 ELSE s[1][2] + StrLen(Tail(s))

\* s[:k]
RECURSIVE Take(_, _)
Take(s, k) ==
    IF k <= 0 \/ s = <<>> THEN <<>>
    ELSE IF s[1][2] <= k THEN <<s[1]>> \o Take(Tail(s), k - s[1][2])
    ELSE << <<s[1][1], k>> >>

\* s[k:]
RECURSIVE Drop(_, _)
Drop(s, k) ==
    IF k <= 0 \/ s = <<>> THEN s
    ELSE IF s[1][2] <= k THEN Drop(Tail(s), k - s[1][2])
    ELSE << <<s[1][1], s[1][2] - k>> >> \o Tail(s)

\* the highest position p with start <= p < end and s[p] a line break, for
\* the string s placed at offset off; best if there is none
RECURSIVE RfindFrom(_, _, _, _)
RfindFrom(s, off, end, best) ==
    IF s = <<>> \/ off >= end THEN best
    ELSE LET last == IF off + s[1][2] <= end THEN off + s[1][2] - 1 ELSE end - 1
         IN RfindFrom(Tail(s), off + s[1][2], end,
                      IF s[1][1] = "n" THEN last ELSE best)

\* a search that forgets the end of the range: s.rfind('\n')
RfindNewlineNoEnd(s, end) == RfindFrom(s, 0, StrLen(s), -1)

\* s.rfind('\n', 0, end), -1 if there is none
RfindNewline(s, end) == RfindFrom(s, 0, end, -1)

\* a cut that never looks for a line break
SplitIdxHardCut(s) == TELEGRAM_MSG_LIMIT

\* a hard cut one character short of the limit
SplitIdxCutShort(s) ==
    LET idx == RfindNewline(s, TELEGRAM_MSG_LIMIT)
    IN IF idx > 0 THEN idx ELSE TELEGRAM_MSG_LIMIT - 1

\* a cut that accepts a line break at position 0: idx >= 0
SplitIdxFromZero(s) ==
    LET idx == RfindNewline(s, TELEGRAM_MSG_LIMIT)
    IN IF idx >= 0 THEN idx ELSE TELEGRAM_MSG_LIMIT

\* lines 162-163: where the next chunk ends
SplitIdx(s) ==
    LET idx == RfindNewline(s, TELEGRAM_MSG_LIMIT)
    IN IF idx > 0 THEN idx ELSE TELEGRAM_MSG_LIMIT

\* a rest that skips the character at the cut: html_content[idx + 1:]
RestAfterCut(s, idx) == Drop(s, idx + 1)

\* line 165: html_content[idx:]
Rest(s, idx) == Drop(s, idx)

\* markdown_to_html (lines 140-154) on texts whose backticks come in runs of
\* three: a run of three backticks with a later one after it delimits a
\* fenced block, which becomes <pre><code>, its content, </code></pre>; the
\* substitutions of lines 148-152 match nothing in the other segments (no
\* reserved character, asterisk or underscore, and at most one backtick run)
OpenTag == "<pre><code>"
CloseTag == "</code></pre>"
OpenLen == 11
CloseLen == 13

RECURSIVE MarkdownToHtml(_)
MarkdownToHtml(s) ==
    IF s = <<>> THEN <<>>
    ELSE IF s[1][1] = "q" /\ \E j \in 2..Len(s) : s[j][1] = "q"
    THEN LET j == CHOOSE k \in 2..Len(s) :
                      /\ s[k][1] = "q"
                      /\ \A m \in 2..(k - 1) : s[m][1] # "q"
         IN << <<OpenTag, OpenLen>> >> \o SubSeq(s, 2, j - 1)
              \o << <<CloseTag, CloseLen>> >>
              \o MarkdownToHtml(SubSeq(s, j + 1, Len(s)))
    ELSE <<s[1]>> \o MarkdownToHtml(Tail(s))

\* the translated replies tried: up to MaxRuns runs, line breaks and other
\* characters alternating
XLens == {1, 999, 4000, TELEGRAM_MSG_LIMIT - 1, TELEGRAM_MSG_LIMIT, 5000,
          2 * TELEGRAM_MSG_LIMIT, 9000}
NLens == {1, 2}
AllRuns ==
    {<<"x", n>> : n \in XLens} \cup {<<"n", n>> : n \in NLens}
        \cup {<<"q", 3>>}
RawInputs ==
    {s \in UNION {[1..k -> AllRuns] : k \in 0..MaxRuns} :
        \A i \in 1..(Len(s) - 1) : s[i][1] # s[i + 1][1]}
Inputs == {MarkdownToHtml(raw) : raw \in RawInputs}

\* ------------------------------------------------------------------- state
Init ==
    /\ count \in [Users -> InitCounts]
    /\ user_histories = [u \in Users |-> NoList]
    /\ lists = [i \in ListIds |-> <<>>]
    /\ tasks = [t \in Tasks |-> IdleTask]
    /\ reqs = 0
    /\ admitted = count
    /\ resetRank = [u \in Users |-> 0]
    /\ html_content = <<>>
    /\ parts = <<>>
    /\ cpc = "off"
    /\ translated = <<>>

Free(t) == tasks[t].pc \in {"idle"} \cup Terminal

\* the except branch of async_error_handler: the handler raised, the wrapper
\* starts send_long_message with the one-chunk error notice
Raise(tk) == [IdleTask EXCEPT !.pc = "err_html", !.uid = tk.uid, !.gate = tk.gate]

\* ----------------------------------------------- check_rate_limit (114-127)
\* An update for user u reaches a handler of kind k: wrapper, wrapped,
\* check_rate_limit up to "await is_subscribed": the count is read.
Receive(t, u, k) ==
    /\ Free(t)
    /\ reqs' = reqs + 1
    /\ tasks' = [tasks EXCEPT ![t] =
            [IdleTask EXCEPT !.pc = "sub", !.uid = u, !.kind = k,
                             !.count = count[u]]]
    /\ UNCHANGED <<count, user_histories, lists, admitted, resetRank, chunkVars>>

\* get_request_count raises (sqlite3 error): nothing was read
ReceiveReadFails(t, u, k) ==
    /\ Free(t)
    /\ reqs' = reqs + 1
    /\ tasks' = [tasks EXCEPT ![t] =
            Raise([IdleTask EXCEPT !.uid = u, !.gate = "read_failed"])]
    /\ UNCHANGED <<count, user_histories, lists, admitted, resetRank, chunkVars>>

\* get_chat_member ended as o and count >= limit: the notice is being sent
Reject(t, o) ==
    LET tk == tasks[t] IN
    /\ tk.pc = "sub"
    /\ Rejects(tk.count, Limit(IsSubscribed(o)))
    /\ tasks' = [tasks EXCEPT ![t] =
            [tk EXCEPT !.pc = "notice", !.limit = Limit(IsSubscribed(o)),
                       !.lookup = o, !.gate = "reject"]]
    /\ UNCHANGED <<count, user_histories, lists, reqs, admitted, resetRank, chunkVars>>

\* a failed write that has stored count + 1 all the same
AdmitWriteFailsCounted(t, o) ==
    LET tk == tasks[t] IN
    /\ tk.pc = "sub"
    /\ ~Rejects(tk.count, Limit(IsSubscribed(o)))
    /\ count' = [count EXCEPT ![tk.uid] = tk.count + 1]
    /\ tasks' = [tasks EXCEPT ![t] = Raise([tk EXCEPT !.gate = "write_failed"])]
    /\ UNCHANGED <<user_histories, lists, reqs, admitted, resetRank, chunkVars>>

\* get_chat_member ended as o, count < limit, update_request_count raises
AdmitWriteFails(t, o) ==
    LET tk == tasks[t] IN
    /\ tk.pc = "sub"
    /\ ~Rejects(tk.count, Limit(IsSubscribed(o)))
    /\ tasks' = [tasks EXCEPT ![t] = Raise([tk EXCEPT !.gate = "write_failed"])]
    /\ UNCHANGED <<count, user_histories, lists, reqs, admitted, resetRank, chunkVars>>

\* get_chat_member ended as o, count < limit: count + 1 is written, True is
\* returned and handle_text runs up to the backend call of
\* ask_gemini_with_history (lines 176-179): the user turn is appended
AdmitText(t, o) ==
    LET tk == tasks[t]
        u == tk.uid
        rank == admitted[u] + 1
        id == IF user_histories[u] # NoList THEN user_histories[u] ELSE FreshList
    IN
    /\ tk.pc = "sub"
    /\ tk.kind = "text"
    /\ ~Rejects(tk.count, Limit(IsSubscribed(o)))
    /\ count' = [count EXCEPT ![u] = tk.count + 1]
    /\ admitted' = [admitted EXCEPT ![u] = rank]
    /\ lists' = [lists EXCEPT ![id] = Append(@, <<"user", rank>>)]
    /\ tasks' = [tasks EXCEPT ![t] =
            [tk EXCEPT !.pc = "backend", !.limit = Limit(IsSubscribed(o)),
                       !.lookup = o, !.gate = "admit",
                       !.hist = id,
                       !.rank = rank, !.prev = History(u)]]
    /\ UNCHANGED <<user_histories, reqs, resetRank, chunkVars>>

\* the same for the reset handler (lines 214-216): the key is popped
AdmitReset(t, o) ==
    LET tk == tasks[t]
        u == tk.uid
        rank == admitted[u] + 1
        uh == [user_histories EXCEPT ![u] = NoList]
        tks == [tasks EXCEPT ![t] =
                   [tk EXCEPT !.pc = "reset_reply",
                              !.limit = Limit(IsSubscribed(o)), !.lookup = o,
                              !.gate = "admit", !.rank = rank]]
    IN
    /\ tk.pc = "sub"
    /\ tk.kind = "reset"
    /\ ~Rejects(tk.count, Limit(IsSubscribed(o)))
    /\ count' = [count EXCEPT ![u] = tk.count + 1]
    /\ admitted' = [admitted EXCEPT ![u] = rank]
    /\ resetRank' = [resetRank EXCEPT ![u] = rank]
    /\ user_histories' = uh
    /\ tasks' = tks
    /\ lists' = Collect(lists, uh, tks)
    /\ UNCHANGED <<reqs, chunkVars>>

\* message.reply_text(notice) of line 124 returns: check_rate_limit returns
\* False and wrapped returns
NoticeOk(t) ==
    /\ tasks[t].pc = "notice"
    /\ tasks' = [tasks EXCEPT ![t] = Ended(tasks[t], "Rejected")]
    /\ UNCHANGED <<count, user_histories, lists, reqs, admitted, resetRank, chunkVars>>

\* message.reply_text(notice) raises TelegramError
NoticeFails(t) ==
    /\ tasks[t].pc = "notice"
    /\ tasks' = [tasks EXCEPT ![t] = Raise(tasks[t])]
    /\ UNCHANGED <<count, user_histories, lists, reqs, admitted, resetRank, chunkVars>>

\* ------------------------------------------------------- reset (line 216)
ResetReplyOk(t) ==
    /\ tasks[t].pc = "reset_reply"
    /\ tasks' = [tasks EXCEPT ![t] = Ended(tasks[t], "ResetDone")]
    /\ UNCHANGED <<count, user_histories, lists, reqs, admitted, resetRank, chunkVars>>

ResetReplyFails(t) ==
    /\ tasks[t].pc = "reset_reply"
    /\ tasks' = [tasks EXCEPT ![t] = Raise(tasks[t])]
    /\ UNCHANGED <<count, user_histories, lists, reqs, admitted, resetRank, chunkVars>>

\* --------------------------------------- ask_gemini_with_history (175-189)
\* generate_content returned: the model turn is appended to hist, a new list
\* hist[-MAX_HISTORY:] is stored, and send_long_message starts on the reply,
\* which splits into n chunks
BackendOk(t, n) ==
    LET tk == tasks[t]
        u == tk.uid
        full == Append(lists[tk.hist], <<"model", tk.rank>>)
        new == FreshList
        l1 == [lists EXCEPT ![tk.hist] = full, ![new] = LastN(full, MAX_HISTORY)]
        uh == [user_histories EXCEPT ![u] = new]
        tks == [tasks EXCEPT ![t] = Sending(tk, n)]
    IN
    /\ tk.pc = "backend"
    /\ user_histories' = uh
    /\ tasks' = tks
    /\ lists' = Collect(l1, uh, tks)
    /\ UNCHANGED <<count, reqs, admitted, resetRank, chunkVars>>

\* generate_content raised ResourceExhausted ("quota") or another exception
\* ("error"): a notice text is returned, history is not touched again.
\* kept (ghost) notes whether the user turn of the call is in the stored
\* history at that moment
BackendFails(t, e) ==
    LET tk == tasks[t]
        u == tk.uid
        inStored == Holds(History(u), <<"user", tk.rank>>)
        tks == [tasks EXCEPT ![t] =
                   [Sending(tk, 1) EXCEPT
                       !.kept = IF inStored THEN "kept" ELSE "absent"]]
    IN
    /\ tk.pc = "backend"
    /\ e \in {"quota", "error"}
    /\ tasks' = tks
    /\ lists' = Collect(lists, user_histories, tks)
    /\ UNCHANGED <<count, user_histories, reqs, admitted, resetRank, chunkVars>>

\* ------------------------------------ send_long_message delivery (167-172)
\* a delivery that stops after its first chunk
AfterPartStops(tk, how) == Ended(tk, "Delivered")

\* one reply_text of the for loop returned: the next part, or the end
AfterPart(tk, how) ==
    LET s == Append(tk.sent, how) IN
    IF Len(s) = tk.nparts
        THEN Ended(tk, "Delivered")
        ELSE [tk EXCEPT !.sent = s, !.pc = "send_html"]

SendHtmlOk(t) ==
    /\ tasks[t].pc = "send_html"
    /\ tasks' = [tasks EXCEPT ![t] = AfterPart(tasks[t], "html")]
    /\ UNCHANGED <<count, user_histories, lists, reqs, admitted, resetRank, chunkVars>>

\* TelegramError: the fallback without tags is sent
SendHtmlFails(t) ==
    /\ tasks[t].pc = "send_html"
    /\ tasks' = [tasks EXCEPT ![t].pc = "send_plain"]
    /\ UNCHANGED <<count, user_histories, lists, reqs, admitted, resetRank, chunkVars>>

SendPlainOk(t) ==
    /\ tasks[t].pc = "send_plain"
    /\ tasks' = [tasks EXCEPT ![t] = AfterPart(tasks[t], "plain")]
    /\ UNCHANGED <<count, user_histories, lists, reqs, admitted, resetRank, chunkVars>>

\* the fallback raises too: the exception leaves send_long_message and the
\* handler and reaches async_error_handler
SendPlainFails(t) ==
    /\ tasks[t].pc = "send_plain"
    /\ tasks' = [tasks EXCEPT ![t] = Raise(tasks[t])]
    /\ UNCHANGED <<count, user_histories, lists, reqs, admitted, resetRank, chunkVars>>

\* ------------------------------------------- async_error_handler (74-84)
ErrHtmlOk(t) ==
    /\ tasks[t].pc = "err_html"
    /\ tasks' = [tasks EXCEPT ![t] = Ended(tasks[t], "ErrorNotified")]
    /\ UNCHANGED <<count, user_histories, lists, reqs, admitted, resetRank, chunkVars>>

ErrHtmlFails(t) ==
    /\ tasks[t].pc = "err_html"
    /\ tasks' = [tasks EXCEPT ![t].pc = "err_plain"]
    /\ UNCHANGED <<count, user_histories, lists, reqs, admitted, resetRank, chunkVars>>

ErrPlainOk(t) ==
    /\ tasks[t].pc = "err_plain"
    /\ tasks' = [tasks EXCEPT ![t] = Ended(tasks[t], "ErrorNotified")]
    /\ UNCHANGED <<count, user_histories, lists, reqs, admitted, resetRank, chunkVars>>

\* the fallback of the error notice raises: the exception leaves the wrapper
ErrPlainFails(t) ==
    /\ tasks[t].pc = "err_plain"
    /\ tasks' = [tasks EXCEPT ![t] = Ended(tasks[t], "Raised")]
    /\ UNCHANGED <<count, user_histories, lists, reqs, admitted, resetRank, chunkVars>>

Next ==
    \E t \in Tasks :
        \/ reqs < MaxReq /\ \E u \in Users, k \in Kinds : Receive(t, u, k)
        \/ reqs < MaxReq /\ \E u \in Users, k \in Kinds : ReceiveReadFails(t, u, k)
        \/ \E o \in LookupOutcomes : Reject(t, o)
        \/ \E o \in LookupOutcomes : AdmitWriteFails(t, o)
        \/ \E o \in LookupOutcomes : AdmitText(t, o)
        \/ \E o \in LookupOutcomes : AdmitReset(t, o)
        \/ NoticeOk(t)
        \/ NoticeFails(t)
        \/ ResetReplyOk(t)
        \/ ResetReplyFails(t)
        \/ \E n \in 1..MaxParts : BackendOk(t, n)
        \/ \E e \in {"quota", "error"} : BackendFails(t, e)
        \/ SendHtmlOk(t)
        \/ SendHtmlFails(t)
        \/ SendPlainOk(t)
        \/ SendPlainFails(t)
        \/ ErrHtmlOk(t)
        \/ ErrHtmlFails(t)
        \/ ErrPlainOk(t)
        \/ ErrPlainFails(t)

Spec == Init /\ [][Next]_vars

\* One user who sends text messages one after the other (no two handlers
\* overlap), with storage and transport that do not fail: the behaviours of
\* Spec of that kind, followed for more requests so that the history fills up.
InitHistory ==
    /\ count = [u \in Users |-> 0]
    /\ user_histories = [u \in Users |-> NoList]
    /\ lists = [i \in ListIds |-> <<>>]
    /\ tasks = [t \in Tasks |-> IdleTask]
    /\ reqs = 0
    /\ admitted = count
    /\ resetRank = [u \in Users |-> 0]
    /\ html_content = <<>>
    /\ parts = <<>>
    /\ cpc = "off"
    /\ translated = <<>>

NextHistory ==
    \E t \in Tasks :
        \/ /\ reqs < MaxReqHistory
           /\ \A other \in Tasks : Free(other)
           /\ Receive(t, 1, "text")
        \/ \E o \in LookupOutcomes : AdmitText(t, o)
        \/ \E n \in 1..MaxParts : BackendOk(t, n)
        \/ \E e \in {"quota", "error"} : BackendFails(t, e)
        \/ SendHtmlOk(t)

SpecHistory == InitHistory /\ [][NextHistory]_vars

\* ------------------------------------ send_long_message splitting (159-166)
\* send_long_message is called with a reply whose translation is some input
InitChunk ==
    /\ count = [u \in Users |-> 0]
    /\ user_histories = [u \in Users |-> NoList]
    /\ lists = [i \in ListIds |-> <<>>]
    /\ tasks = [t \in Tasks |-> IdleTask]
    /\ reqs = 0
    /\ admitted = count
    /\ resetRank = [u \in Users |-> 0]
    /\ translated \in Inputs
    /\ html_content = translated
    /\ parts = <<>>
    /\ cpc = "loop"

\* one iteration of the while loop (lines 161-165)
SplitStep ==
    /\ cpc = "loop"
    /\ StrLen(html_content) > TELEGRAM_MSG_LIMIT
    /\ parts' = Append(parts, Take(html_content, SplitIdx(html_content)))
    /\ html_content' = Rest(html_content, SplitIdx(html_content))
    /\ UNCHANGED <<cpc, translated, botVars>>

\* the loop ends, the rest is the last chunk (line 166)
SplitLast ==
    /\ cpc = "loop"
    /\ StrLen(html_content) <= TELEGRAM_MSG_LIMIT
    /\ parts' = Append(parts, html_content)
    /\ cpc' = "done"
    /\ UNCHANGED <<html_content, translated, botVars>>

NextChunk == SplitStep \/ SplitLast

SpecChunk == InitChunk /\ [][NextChunk]_vars

\* send_long_message has no suspension point before its loop has ended
\* (lines 158-166 hold no await): the loop keeps taking its next step
SpecChunkFair == SpecChunk /\ WF_vars(NextChunk)

\* ------------------------------------------------------------------ claims
InFlightAdmitted(t) == tasks[t].pc \in {"backend", "reset_reply"}

\* C1: the calls admitted for one (user, date) never exceed the limit applied:
\* every admitted call is at most the limit-th admitted call of that user's
\* day, as in some serial order of the calls.
AdmittedWithinLimit ==
    \A t \in Tasks : InFlightAdmitted(t) => tasks[t].rank <= tasks[t].limit

\* C2: after n admitted calls on a key the stored count is n: no increment
\* of an admitted request is lost.
CountEqualsAdmitted == \A u \in Users : count[u] = admitted[u]

\* C3: the stored count of a (user, date) key never decreases.
CountMonotone == [][\A u \in Users : count'[u] >= count[u]]_vars

RejectStep(t) ==
    LET tk == tasks[t] IN
    /\ (/\ tk.pc = "sub"
        /\ tasks'[t].pc # "sub"
        /\ \/ tk.count >= LIMIT_SUB
           \/ tasks'[t].limit # 0 /\ tk.count >= tasks'[t].limit)
       => /\ tasks'[t].pc = "notice"
          /\ tasks'[t].gate = "reject"
          /\ UNCHANGED <<count, user_histories, lists>>
    /\ (tk.gate = "reject" /\ tasks'[t] # tk)
       => \/ tk.pc \in Terminal
          \/ /\ tasks'[t].gate = "reject"
             /\ tasks'[t].pc \in {"Rejected", "err_html", "err_plain",
                                  "ErrorNotified", "Raised"}
             /\ tasks'[t].hist = NoList
             /\ UNCHANGED <<count, user_histories, lists>>

HistoryWithinCap == \A u \in Users : Len(History(u)) <= MAX_HISTORY

\* C6: a successful exchange stores the last MAX_HISTORY entries of the
\* history the request found, then its user turn, then its model turn.
ExchangeStoresLastTen ==
    [][\A t \in Tasks :
          (tasks[t].pc = "backend" /\ tasks'[t].pc = "send_html"
              /\ tasks'[t].kept = "na")
          => HistoryIn(user_histories', lists', tasks[t].uid)
               = LastN(tasks[t].prev \o <<(<<"user", tasks[t].rank>>),
                                          (<<"model", tasks[t].rank>>)>>,
                       MAX_HISTORY)]_vars

\* C7: after a reset no turn of a request admitted before the reset is in
\* the user's history.
NoTurnFromBeforeReset ==
    \A u \in Users :
        \A i \in 1..Len(History(u)) : History(u)[i][2] > resetRank[u]

\* C8: in a stored history turns are in admission order and every model turn
\* directly follows the user turn it answers; a step drops a recorded model
\* turn only by eviction at the cap or by a reset.
TurnsPaired(h) ==
    \A i \in 2..Len(h) :
        /\ h[i - 1][2] <= h[i][2]
        /\ h[i][1] = "model" => h[i - 1] = <<"user", h[i][2]>>

NoExchangeOverwritten ==
    \A u \in Users :
        \A i \in 1..Len(History(u)) :
            LET turn == History(u)[i]
                after == HistoryIn(user_histories', lists', u)
            IN turn[1] = "model" =>
                  \/ Holds(after, turn)
                  \/ resetRank'[u] # resetRank[u]
                  \/ Len(after) >= MAX_HISTORY

ExchangesNotInterleaved ==
    /\ [](\A u \in Users : TurnsPaired(History(u)))
    /\ [][NoExchangeOverwritten]_vars

\* C9: every failed backend call leaves its user turn in the same way:
\* in the stored history for all of them, or for none.
FailurePathDeterministic ==
    \A t1, t2 \in Tasks :
        (tasks[t1].kept # "na" /\ tasks[t2].kept # "na")
            => tasks[t1].kept = tasks[t2].kept

\* C10: every chunk the splitting loop produces, the last one included, is
\* at most TELEGRAM_MSG_LIMIT characters long.
ChunksWithinLimit ==
    \A i \in 1..Len(parts) : StrLen(parts[i]) <= TELEGRAM_MSG_LIMIT

\* a reply split into three or more chunks, one of them cut at a line break
SplitInThree ==
    /\ cpc = "done"
    /\ Len(parts) >= 3
    /\ \E i \in 1..Len(parts) :
          /\ StrLen(parts[i]) < TELEGRAM_MSG_LIMIT
          /\ i < Len(parts)


\* ------------------------------------------------ chunks against the input
\* the chunks of ps put one after another
RECURSIVE Flatten(_)
Flatten(ps) == IF ps = <<>> THEN <<>> ELSE Head(ps) \o Flatten(Tail(ps))

\* the same string with neighbouring runs of one character merged
RECURSIVE Norm(_)
Norm(s) ==
    IF Len(s) < 2 THEN s
    ELSE IF s[1][1] = s[2][1]
    THEN Norm(<< <<s[1][1], s[1][2] + s[2][2]>> >> \o SubSeq(s, 3, Len(s)))
    ELSE <<s[1]>> \o Norm(Tail(s))

\* the character at position p of s ("" past the end)
RECURSIVE CharAt(_, _)
CharAt(s, p) ==
    IF s = <<>> THEN ""
    ELSE IF p < s[1][2] THEN s[1][1]
    ELSE CharAt(Tail(s), p - s[1][2])

\* C11: the chunks emitted so far followed by the text still to be split are
\* exactly the translated input, and once the loop has ended the chunks
\* alone are: nothing is lost, nothing repeated, the line breaks at the cuts
\* included.
ChunksReproduceInput ==
    /\ cpc = "loop" => Norm(Flatten(parts) \o html_content) = translated
    /\ cpc = "done" => Norm(Flatten(parts)) = translated

\* C11 witness: a finished split that cut at a line break, which opens the
\* second chunk
CutAtLineBreakDone ==
    /\ cpc = "done"
    /\ Len(parts) = 2
    /\ parts[2] # <<>>
    /\ parts[2][1][1] = "n"


\* ------------------------------------------------------- where a cut falls
BreakAt(s, p) == CharAt(s, p) = "n"

\* this step is an iteration of the splitting loop
LoopIteration ==
    /\ cpc = "loop"
    /\ StrLen(html_content) > TELEGRAM_MSG_LIMIT
    /\ Len(parts') = Len(parts) + 1

\* the length of the chunk this step emitted
EmittedLen == StrLen(parts'[Len(parts')])

\* the chunk this step emitted ends at the last line break of the remaining
\* text that lies at one of the positions lo .. TELEGRAM_MSG_LIMIT - 1
EndsAtLastBreakFrom(lo) ==
    /\ EmittedLen \in lo..(TELEGRAM_MSG_LIMIT - 1)
    /\ BreakAt(html_content, EmittedLen)
    /\ \A q \in (EmittedLen + 1)..(TELEGRAM_MSG_LIMIT - 1) :
           ~BreakAt(html_content, q)

\* C12 as stated: whenever the remaining text is longer than the limit and
\* a line break exists anywhere within its first 4096 characters (position 0
\* included), the next chunk ends at the last such line break.
CutAtAnyLineBreak ==
    [][(LoopIteration
          /\ \E p \in 0..(TELEGRAM_MSG_LIMIT - 1) : BreakAt(html_content, p))
        => EndsAtLastBreakFrom(0)]_vars

\* C12: whenever the remaining text is longer than the limit and a line
\* break exists at one of the positions 1 .. 4095 of it, the next chunk ends
\* at the last such line break; a line break at position 0 alone does not
\* count, the chunk is then cut at 4096.
CutAtLineBreakPastZero ==
    [][LoopIteration
        => IF \E p \in 1..(TELEGRAM_MSG_LIMIT - 1) : BreakAt(html_content, p)
           THEN EndsAtLastBreakFrom(1)
           ELSE EmittedLen = TELEGRAM_MSG_LIMIT]_vars

\* C12 witness: a 5000-character input with its line break at position 4000
\* was split into a first chunk of length 4000 and the rest
FiveThousandCutAtFourThousand ==
    /\ cpc = "done"
    /\ StrLen(translated) = 5000
    /\ BreakAt(translated, 4000)
    /\ Len(parts) = 2
    /\ StrLen(parts[1]) = 4000


\* ------------------------------------------------------------ the hard cut
NoLineBreak(s) == \A i \in 1..Len(s) : s[i][1] # "n"

\* ceil(len / 4096)
CeilOfLimit(len) == (len + TELEGRAM_MSG_LIMIT - 1) \div TELEGRAM_MSG_LIMIT

\* the finished split has ceil(L / 4096) chunks, all but the last of length
\* exactly 4096
ChunkCountIsCeil ==
    /\ Len(parts) = CeilOfLimit(StrLen(translated))
    /\ \A i \in 1..(Len(parts) - 1) : StrLen(parts[i]) = TELEGRAM_MSG_LIMIT

\* C13 as stated: an input of any length L without line breaks, the empty
\* one included, yields exactly ceil(L / 4096) chunks, all but the last of
\* length exactly 4096.
HardCutCountAnyLength ==
    (cpc = "done" /\ NoLineBreak(translated)) => ChunkCountIsCeil

\* C13: an iteration that finds no line break in the first 4096 characters
\* of the remaining text cuts exactly at 4096, and an input of length
\* L >= 1 without line breaks yields exactly ceil(L / 4096) chunks, all but
\* the last of length exactly 4096.
HardCutWithoutLineBreak ==
    /\ [][(LoopIteration
             /\ \A p \in 0..(TELEGRAM_MSG_LIMIT - 1) : ~BreakAt(html_content, p))
           => EmittedLen = TELEGRAM_MSG_LIMIT]_vars
    /\ []((cpc = "done" /\ NoLineBreak(translated) /\ StrLen(translated) >= 1)
           => ChunkCountIsCeil)

\* C13 witness: 9000 characters without a line break came out as 3 chunks
NineThousandInThree ==
    /\ cpc = "done"
    /\ NoLineBreak(translated)
    /\ StrLen(translated) = 9000
    /\ Len(parts) = 3
    /\ StrLen(parts[3]) = 9000 - 2 * TELEGRAM_MSG_LIMIT


\* ------------------------------------------------------- markup in a chunk
\* the tags of c up to run k: opened minus closed
Depth(c, k) ==
    Cardinality({i \in 1..k : c[i][1] = OpenTag})
        - Cardinality({i \in 1..k : c[i][1] = CloseTag})

\* every tag of c is whole, every opened span is closed in c and none is
\* closed before it is opened
Balanced(c) ==
    /\ \A i \in 1..Len(c) :
          /\ c[i][1] = OpenTag => c[i][2] = OpenLen
          /\ c[i][1] = CloseTag => c[i][2] = CloseLen
    /\ \A k \in 1..Len(c) : Depth(c, k) >= 0
    /\ Depth(c, Len(c)) = 0

\* C14: no chunk boundary falls inside an unterminated markup span: every
\* chunk handed to delivery has balanced markup.
ChunksBalanced == \A i \in 1..Len(parts) : Balanced(parts[i])


\* --------------------------------------------------- the loop comes to an end
\* C20: the splitting loop terminates for every input, wherever its line
\* breaks are: every iteration emits a non-empty chunk and leaves a strictly
\* shorter remainder, and the loop reaches its end.
LoopTerminates ==
    /\ [][LoopIteration
           => /\ EmittedLen >= 1
              /\ StrLen(html_content') < StrLen(html_content)]_vars
    /\ <>(cpc = "done")

\* C20 witness: a remainder that began with a line break and had no other in
\* range was cut at 4096, and the loop then ended
CutPastLeadingLineBreak ==
    /\ cpc = "done"
    /\ Len(parts) >= 3
    /\ parts[2][1][1] = "n"
    /\ StrLen(parts[2]) = TELEGRAM_MSG_LIMIT


\* ------------------------------------------------- the subscription lookup
\* the call of check_rate_limit in t has its lookup behind it and has not
\* left the handler
PastLookup(t) == tasks[t].pc \in {"notice", "backend", "reset_reply"}

\* C17: the subscription lookup is fail-closed and made by each call for
\* itself: a call whose lookup raised goes on (it decides, it does not
\* raise) with the limit 20, and a call applies the limit 40 exactly when
\* its own lookup returned a member status; the only exception leaving the
\* step after the lookup is the failed write of the count.
LookupFailClosed ==
    /\ [](\A t \in Tasks : PastLookup(t) =>
            /\ tasks[t].lookup \in LookupOutcomes
            /\ tasks[t].lookup = "error" => tasks[t].limit = LIMIT_UNSUB
            /\ tasks[t].limit = LIMIT_SUB <=> tasks[t].lookup \in MemberStatuses
            /\ tasks[t].limit = LIMIT_UNSUB <=> tasks[t].lookup \notin MemberStatuses
            /\ tasks[t].gate = "reject" <=> tasks[t].count >= tasks[t].limit)
    /\ [][\A t \in Tasks :
            (tasks[t].pc = "sub" /\ tasks'[t].pc # "sub")
              => \/ PastLookup(t)'
                 \/ /\ tasks'[t].pc = "err_html"
                    /\ tasks'[t].gate = "write_failed"]_vars

\* C17 witness: a call whose lookup raised was held to the limit 20 and
\* rejected at a count of exactly 20
RejectedAfterFailedLookup ==
    \E t \in Tasks :
        /\ tasks[t].pc = "notice"
        /\ tasks[t].lookup = "error"
        /\ tasks[t].count = LIMIT_UNSUB
        /\ tasks[t].limit = LIMIT_UNSUB


\* ------------------------------------------------- delivery of the chunks
Delivering(t) == tasks[t].pc \in {"send_html", "send_plain"}

\* what a step of a delivering handler may be
DeliveryStep(t) ==
    LET tk == tasks[t]
        nx == tasks'[t]
        how == IF tk.pc = "send_html" THEN "html" ELSE "plain"
    IN
    \/ /\ tk.pc = "send_html"                 \* markup failed: same chunk, plain
       /\ nx.pc = "send_plain"
       /\ nx.sent = tk.sent
       /\ nx.nparts = tk.nparts
    \/ /\ nx.pc = "send_html"                 \* chunk sent, the next one is due
       /\ nx.sent = Append(tk.sent, how)
       /\ Len(nx.sent) < tk.nparts
       /\ nx.nparts = tk.nparts
    \/ /\ nx.pc = "Delivered"                 \* the last chunk was sent
       /\ Len(tk.sent) + 1 = tk.nparts
    \/ /\ tk.pc = "send_plain"                \* the retry failed: no other try
       /\ nx.pc = "err_html"

\* C15 as stated: every chunk of a reply is sent in markup form or as its
\* plain fallback, so a handler that is delivering goes on delivering until
\* it is Delivered.
EveryChunkSent ==
    [][\A t \in Tasks :
          Delivering(t) => (Delivering(t)' \/ tasks'[t].pc = "Delivered")]_vars

\* C15: chunks are attempted in order, one at a time; a failed markup
\* delivery is followed by one plain retry of the same chunk before the next
\* chunk; Delivered is reached exactly when the last chunk was sent in one
\* of the two forms; a failed retry is not retried, it ends the delivery with
\* the remaining chunks unsent and hands the request to the error path.
DeliveryInOrder ==
    [][\A t \in Tasks :
          (Delivering(t) /\ tasks'[t] # tasks[t]) => DeliveryStep(t)]_vars

\* C15 witness: the first of two chunks went out as its plain fallback and
\* the second is due
SecondChunkAfterFallback ==
    \E t \in Tasks :
        /\ tasks[t].pc = "send_html"
        /\ tasks[t].nparts = 2
        /\ tasks[t].sent = <<"plain">>


NoExceptionEscapes == \A t \in Tasks : tasks[t].pc # "Raised"


\* ------------------------------------------------- reset behind the gate
\* C19: a reset passes the same gate as a message: the step that admits a
\* reset raises the stored daily count of its user by one and removes the
\* history of that user, and the step that rejects a reset leaves counts and
\* histories as they are.
ResetThroughGate ==
    [][\A t \in Tasks :
          (tasks[t].pc = "sub" /\ tasks[t].kind = "reset")
            => /\ tasks'[t].pc = "reset_reply"
                    => /\ count'[tasks[t].uid] = count[tasks[t].uid] + 1
                       /\ count[tasks[t].uid] < tasks'[t].limit
                       /\ user_histories'[tasks[t].uid] = NoList
               /\ tasks'[t].pc = "notice"
                    => /\ count[tasks[t].uid] >= tasks'[t].limit
                       /\ UNCHANGED <<count, user_histories, lists>>]_vars

====
